---- MODULE Spec2Model ----
(***************************************************************************)
(* State-machine model of src/taskmanager.py (class TaskManager): the      *)
(* refresh timer, the sampling passes (CPU/memory, disks, disk I/O), the   *)
(* history deques and the selected disk.                                   *)
(*                                                                         *)
(* Time is counted in whole seconds.  A rate (a Python float) is kept as   *)
(* an exact fraction [n, d] in lowest terms.  A device name (a Python str) *)
(* is a sequence of one-character strings.                                 *)
(***************************************************************************)
EXTENDS Integers, Sequences, FiniteSets, TLC

\* ---------------------------------------------------------------- bounds
MaxTime == 2          \* the clock stops here
MaxSamples == 4       \* no sampling pass starts with this many CPU samples taken
MaxSectors == 1       \* largest value of a sector counter of /proc/diskstats
MaxChanges == 1       \* interval changes, remounts and fault changes in a run
MaxSignals == 1       \* no request to end a process is confirmed after this many
LongMaxTime == 124    \* the clock stops here (SpecLong)

\* ------------------------------------------------------ program constants
cpu_history_points == 60
io_history_points == 30
SectorSize == 512
MiB == 1048576
DefaultInterval == 2
Intervals == {1, 2, 5, 10}
PerformancePage == 0
ProcessesPage == 1
UsersPage == 2
DisksPage == 3
Pages == {PerformancePage, ProcessesPage, UsersPage, DisksPage}
\* None, where the code holds a device name (like '', it is falsy) or a source id
NoDevice == <<>>
NoTimer == 0

\* ---------------------------------------------------------------- helpers
Min(a, b) == IF a <= b THEN a ELSE b

RECURSIVE Gcd(_, _)
Gcd(a, b) == IF b = 0 THEN a ELSE Gcd(b, a % b)

\* the float n/d, n >= 0 and d > 0, as a fraction in lowest terms
Frac(n, d) == LET g == Gcd(n, d) IN [n |-> n \div g, d |-> d \div g]
FracEq(x, y) == x.n * y.d = y.n * x.d
Zero == [n |-> 0, d |-> 1]
Whole(k) == [n |-> k, d |-> 1]
FracAdd(x, y) == Frac(x.n * y.d + y.n * x.d, x.d * y.d)
FracSub(x, y) == Frac(x.n * y.d - y.n * x.d, x.d * y.d)
FracMul(x, y) == Frac(x.n * y.n, x.d * y.d)
FracDiv(x, y) == Frac(x.n * y.d, x.d * y.n)
FracLeq(x, y) == x.n * y.d <= y.n * x.d
\* max() of a non-empty sequence of fractions
FracMax(seq) ==
    LET i == CHOOSE i \in 1..Len(seq) : \A j \in 1..Len(seq) : FracLeq(seq[j], seq[i])
    IN seq[i]

Last(s) == s[Len(s)]
\* the last k entries of s (all of s when it has fewer)
Suffix(s, k) == SubSeq(s, Len(s) - Min(k, Len(s)) + 1, Len(s))

\* a dict with no key
EmptyMap == [k \in {} |-> 0]

\* collections.deque: deque([0] * n, maxlen=n) and deque.append
NewDequeEmpty(n, zero) == <<>>
NewDeque(n, zero) == [i \in 1..n |-> zero]
DequeAppendNoEvict(d, maxlen, v) == Append(d, v)
DequeAppend(d, maxlen, v) ==
    IF Len(d) >= maxlen THEN Append(Tail(d), v) ELSE Append(d, v)

\* ----------------------------------------------------------- device names
Digits == {"0", "1", "2", "3", "4", "5", "6", "7", "8", "9"}
DevPrefix == <<"/", "d", "e", "v", "/">>
LoopPrefix == <<"l", "o", "o", "p">>
Sda == <<"s", "d", "a">>
Loop0 == <<"l", "o", "o", "p", "0">>
DevSda1 == DevPrefix \o <<"s", "d", "a", "1">>
DevSdb1 == DevPrefix \o <<"s", "d", "b", "1">>
TmpfsDev == <<"t", "m", "p", "f", "s">>
Sda1 == <<"s", "d", "a", "1">>
Nvme0n1 == <<"n", "v", "m", "e", "0", "n", "1">>
Nvme0n1p == Nvme0n1 \o <<"p">>
Nvme0n1p2 == Nvme0n1 \o <<"p", "2">>
Nvmenp == <<"n", "v", "m", "e", "n", "p">>
DevNvme0n1p2 == DevPrefix \o Nvme0n1p2

\* str.startswith
StartsWith(s, p) == Len(s) >= Len(p) /\ SubSeq(s, 1, Len(p)) = p

\* str.replace(old, ''): every occurrence of old removed, left to right
RECURSIVE RemoveAll(_, _)
RemoveAll(s, old) ==
    IF s = <<>> THEN <<>>
    ELSE IF StartsWith(s, old) THEN RemoveAll(SubSeq(s, Len(old) + 1, Len(s)), old)
    ELSE <<Head(s)>> \o RemoveAll(Tail(s), old)

\* ''.join([c for c in device_name if not c.isdigit()])
IsNotDigit(c) == c \notin Digits
WithoutDigits(s) == SelectSeq(s, IsNotDigit)

\* ------------------------------------------------------------ environment
\* psutil.disk_usage of a mount point: sizes are counted in GiB; err names the
\* exception the call raises ("none": it returns)
Usage(total, used) ==
    [err |-> "none", total |-> total, used |-> used, free |-> total - used,
     percent |-> (used * 100) \div total]
UsageRaises(e) == [err |-> e, total |-> 0, used |-> 0, free |-> 0, percent |-> 0]
Partition(dev, mp, fs, u) ==
    [device |-> dev, mountpoint |-> mp, fstype |-> fs, usage |-> u]

\* what psutil.disk_partitions(all=False) may return
PartitionTables ==
    { <<Partition(DevSda1, "/", "ext4", Usage(4, 1)),
        Partition(DevSdb1, "/data", "ext4", Usage(4, 2))>>,
      <<Partition(DevSdb1, "/data", "ext4", Usage(4, 2))>>,
      <<Partition(TmpfsDev, "/run", "tmpfs", Usage(4, 1)),
        Partition(DevSda1, "/", "ext4", UsageRaises("PermissionError")),
        Partition(DevSdb1, "/data", "ext4", Usage(4, 3))>>,
      <<Partition(DevSda1, "/", "ext4", Usage(4, 3)),
        Partition(DevSdb1, "/data", "ext4", UsageRaises("OSError"))>>,
      <<>> }

\* one line of /proc/diskstats (fields 3, 5, 7, 9)
StatLine(r, w) ==
    [reads_completed |-> r, sectors_read |-> r,
     writes_completed |-> w, sectors_written |-> w]
\* /proc/diskstats: a loop device is always listed, sda may be listed
DiskStatsFiles ==
    { [d \in {Loop0} |-> StatLine(1, 1)] }
    \cup { [d \in {Loop0, Sda} |-> IF d = Loop0 THEN StatLine(1, 1) ELSE StatLine(r, w)] :
             r \in 0..MaxSectors, w \in 0..MaxSectors }

BothMounted ==
    <<Partition(DevSda1, "/", "ext4", Usage(4, 1)),
      Partition(DevSdb1, "/data", "ext4", Usage(4, 2))>>
StatsFile(r, w) ==
    [d \in {Loop0, Sda} |-> IF d = Loop0 THEN StatLine(1, 1) ELSE StatLine(r, w)]

\* the sizes a drawing area is allocated, and the sectors of a burst of I/O
ChartWidths == {0, 290}
ChartHeights == {100}
AllocatedWidths == {0 - 1, 0, 290}
AllocatedHeights == {0 - 1, 0, 100}
BurstSectors == 8192

\* os.environ.get('USER', 'unknown')
CurrentUser == "alice"
\* None, where psutil reports a user name (like '', it is falsy)
NoUser == ""
\* what psutil.process_iter yields for one process: name_known is FALSE when
\* the name is None (access to the process is denied)
Process(pid, name, name_known, username) ==
    [pid |-> pid, name |-> name, name_known |-> name_known, username |-> username]
Init1 == Process(1, <<"i", "n", "i", "t">>, TRUE, "root")
Bash2 == Process(2, <<"B", "a", "s", "h">>, TRUE, CurrentUser)
Denied3 == Process(3, <<>>, FALSE, NoUser)
Ssh4 == Process(4, <<"s", "s", "h">>, TRUE, CurrentUser)
\* the process table at start-up
StartProcesses == <<Init1, Bash2>>
\* what psutil.process_iter may yield, in the order of the pids
ProcessTables ==
    { <<Init1, Bash2>>, <<Init1, Bash2, Denied3, Ssh4>>, <<Init1, Denied3, Ssh4>>,
      <<Init1, Ssh4>> }
\* the texts the user types into the filter entry
SearchTexts == { <<>>, <<"S", "H">>, <<"i">> }

\* psutil.cpu_percent / psutil.virtual_memory().percent: the k-th reading since
\* start-up, in 1..100 (consecutive readings differ)
CpuReading(k) == 1 + (k % 100)
MemoryReading(k) == 100 - (k % 100)

\* ------------------------------------------------------------------ state
VARIABLES
    now,                \* environment: the clock, in seconds since start-up
    partitions,         \* environment: what psutil.disk_partitions returns
    diskstats,          \* environment: the content of /proc/diskstats
    fault,              \* environment: the metric call that raises at present
    timers,             \* GLib: the armed timeout sources, id -> [period, due]
    next_source_id,     \* GLib: the id the next source gets
    current_page,       \* self.notebook.get_current_page()
    update_interval,    \* self.update_interval
    update_timer_id,    \* self.update_timer_id
    cpu_history,        \* self.cpu_history
    memory_history,     \* self.memory_history
    disk_stats,         \* self.disk_stats
    disk_io_history,    \* self.disk_io_history
    selected_disk,      \* self.selected_disk
    last_disk_io,       \* self.last_disk_io
    disks_list_store,   \* self.disks_list_store: the device of each row
    disk_labels,        \* the disk detail labels (None until first set)
    show_system_processes,      \* self.show_system_processes.get_active()
    search_text,                \* self.process_search_entry.get_text()
    my_process_list_store,      \* self.my_process_list_store: the rows
    system_process_list_store,  \* self.system_process_list_store: the rows
    my_selection,               \* the selected row of my_process_tree (0: none)
    system_selection,           \* the selected row of system_process_tree (0: none)
    end_process_button,         \* self.end_process_button is sensitive
    painted,            \* what the draw handler that ran last painted
    processes,          \* environment: what psutil.process_iter yields
    running,            \* GLib: the handlers waiting in dialog.run(), innermost last
    signals,            \* environment: the os.kill calls made so far, in order
    pending_refreshes,  \* GLib: the armed one-shot sources of refresh_processes
    cpu_count,          \* history: the samples appended to cpu_history so far
    memory_count,       \* history: the samples appended to memory_history so far
    io_count,           \* history: the samples appended to each disk_io_history so far
    last_io_time,       \* history: the time last_disk_io was read at
    last_change,        \* history: the time of the last interval change
    op,                 \* history: the handler that ran last
    events,             \* history: what the handler that ran last did, in order
    changes             \* history: interval changes, remounts, fault changes so far

envVars == <<now, partitions, diskstats, fault, processes>>
glibVars == <<timers, next_source_id>>
loopVars == <<running, signals, pending_refreshes>>
appVars == <<current_page, update_interval, update_timer_id, cpu_history,
             memory_history, disk_stats, disk_io_history, selected_disk,
             last_disk_io, disks_list_store, disk_labels, show_system_processes,
             search_text, my_process_list_store, system_process_list_store,
             my_selection, system_selection, end_process_button, painted>>
histVars == <<cpu_count, memory_count, io_count, last_io_time, last_change, op, events,
              changes>>
vars == <<envVars, glibVars, loopVars, appVars, histVars>>

\* what a draw handler paints on its drawing area, allocated width x height:
\* a message or the polylines (series) and wedges (arcs) of a chart, scaled to
\* scale
Painting(area, width, height, shows, series, scale, arcs) ==
    [area |-> area, width |-> width, height |-> height, shows |-> shows,
     series |-> series, scale |-> scale, arcs |-> arcs]
\* the handler returned before it painted anything
Unpainted(area, width, height) ==
    Painting(area, width, height, "nothing", <<>>, Zero, <<>>)

\* the detail labels before update_disk_details first sets them
NoLabels ==
    [device |-> NoDevice, mountpoint |-> "", fstype |-> "", total |-> 0, used |-> 0,
     free |-> 0, percent |-> 0, read |-> 0, write |-> 0]

\* the fields of the object the sampling handlers read and write, as a record
Self ==
    [current_page |-> current_page, update_interval |-> update_interval,
     cpu_history |-> cpu_history, memory_history |-> memory_history,
     disk_stats |-> disk_stats, disk_io_history |-> disk_io_history,
     selected_disk |-> selected_disk, last_disk_io |-> last_disk_io,
     disks_list_store |-> disks_list_store, disk_labels |-> disk_labels,
     show_system_processes |-> show_system_processes, search_text |-> search_text,
     my_process_list_store |-> my_process_list_store,
     system_process_list_store |-> system_process_list_store,
     my_selection |-> my_selection, system_selection |-> system_selection,
     end_process_button |-> end_process_button, painted |-> painted,
     cpu_count |-> cpu_count, memory_count |-> memory_count, io_count |-> io_count,
     last_io_time |-> last_io_time, events |-> <<>>]

\* init_performance_data, init_disk_data and the fields __init__ sets itself
NewSelf ==
    [current_page |-> PerformancePage, update_interval |-> DefaultInterval,
     cpu_history |-> NewDeque(cpu_history_points, 0),
     memory_history |-> NewDeque(cpu_history_points, 0),
     disk_stats |-> EmptyMap, disk_io_history |-> EmptyMap,
     selected_disk |-> NoDevice, last_disk_io |-> EmptyMap,
     disks_list_store |-> <<>>, disk_labels |-> NoLabels,
     show_system_processes |-> TRUE, search_text |-> <<>>,
     my_process_list_store |-> <<>>, system_process_list_store |-> <<>>,
     my_selection |-> 0, system_selection |-> 0, end_process_button |-> FALSE,
     painted |-> Unpainted("none", 0, 0),
     cpu_count |-> 0, memory_count |-> 0, io_count |-> EmptyMap,
     last_io_time |-> 0, events |-> <<>>]

Did(s, e) == [s EXCEPT !.events = Append(@, e)]

\* --------------------------------------------------- update_performance_data
\* fail names the call that raises: "none", "cpu_percent" (or a call before it),
\* "virtual_memory", "diskstats" (not a call made here)
Faults == {"none", "cpu_percent", "virtual_memory", "diskstats"}
\* a handler that reports its failure in a modal dialog, as show_error does
UpdatePerformanceDataShowError(s, fail) == Did(Did(s, "error"), "dialog_run")
update_performance_data(s, fail) ==
    IF fail = "cpu_percent" THEN Did(s, "error")
    ELSE
      LET cpu_percent == CpuReading(s.cpu_count)
          s1 == Did([s EXCEPT
                      !.cpu_history = DequeAppend(@, cpu_history_points, cpu_percent),
                      !.cpu_count = @ + 1], "cpu_append")
      IN IF fail = "virtual_memory" THEN Did(s1, "error")
         ELSE
           LET percent == MemoryReading(s1.memory_count)
               s2 == Did([s1 EXCEPT
                           !.memory_history = DequeAppend(@, cpu_history_points, percent),
                           !.memory_count = @ + 1], "memory_append")
           IN Did(s2, "cpu_chart_queue_draw")

\* ------------------------------------------------------ update_disk_io_stats
\* the dict the loop over /proc/diskstats builds (loop devices skipped)
CurrentIo(file) ==
    [d \in {x \in DOMAIN file : ~StartsWith(x, LoopPrefix)} |->
        [reads |-> file[d].reads_completed,
         writes |-> file[d].writes_completed,
         read_bytes |-> file[d].sectors_read * SectorSize,
         write_bytes |-> file[d].sectors_written * SectorSize]]

\* read_rate / (1024 * 1024), with read_rate = read_bytes_diff / update_interval
RateMBps(bytes_diff, interval) == Frac(bytes_diff, interval * MiB)

\* the guard of the append: a previous snapshot, and no negative difference
SampledReadOnly(last, cur, d) ==
    /\ d \in DOMAIN last
    /\ cur[d].read_bytes - last[d].read_bytes >= 0
Sampled(last, cur, d) ==
    /\ d \in DOMAIN last
    /\ cur[d].read_bytes - last[d].read_bytes >= 0
    /\ cur[d].write_bytes - last[d].write_bytes >= 0

\* a snapshot that keeps the old counters of a device whose interval is
\* discarded
NewSnapshotOfSampled(last, current_io) ==
    [d \in DOMAIN current_io |->
        IF d \in DOMAIN last /\ ~Sampled(last, current_io, d) THEN last[d]
        ELSE current_io[d]]
\* self.last_disk_io = current_io
NewSnapshot(last, current_io) == current_io

NewIoHistory ==
    [read |-> NewDeque(io_history_points, Zero),
     write |-> NewDeque(io_history_points, Zero)]

\* fail = "diskstats": open('/proc/diskstats') or the parse raises; t: the time
update_disk_io_stats(s, file, fail, t) ==
    IF fail = "diskstats" THEN Did(s, "error")
    ELSE
      LET current_io == CurrentIo(file)
          last == s.last_disk_io
          hit == {d \in DOMAIN current_io : Sampled(last, current_io, d)}
          rr(d) == RateMBps(current_io[d].read_bytes - last[d].read_bytes,
                            s.update_interval)
          wr(d) == RateMBps(current_io[d].write_bytes - last[d].write_bytes,
                            s.update_interval)
          old(d) == IF d \in DOMAIN s.disk_io_history
                    THEN s.disk_io_history[d] ELSE NewIoHistory
      IN Did([s EXCEPT
               !.disk_io_history =
                   [d \in DOMAIN s.disk_io_history \cup hit |->
                       IF d \in hit
                       THEN [read |-> DequeAppend(old(d).read, io_history_points, rr(d)),
                             write |-> DequeAppend(old(d).write, io_history_points, wr(d))]
                       ELSE s.disk_io_history[d]],
               !.io_count =
                   [d \in DOMAIN s.io_count \cup hit |->
                       IF d \in hit
                       THEN (IF d \in DOMAIN s.io_count THEN s.io_count[d] ELSE 0) + 1
                       ELSE s.io_count[d]],
               !.last_disk_io = NewSnapshot(last, current_io),
               !.last_io_time = t], "io_pass")

\* ------------------------------------------------------- update_disk_details
\* the history a partition's rates are looked up under (NoDevice: none)
IoDeviceBaseOnly(history, device) ==
    LET base_device == WithoutDigits(RemoveAll(device, DevPrefix))
    IN IF base_device \in DOMAIN history THEN base_device ELSE NoDevice
IoDevice(history, device) ==
    LET device_name == RemoveAll(device, DevPrefix)
        base_device == WithoutDigits(device_name)
    IN IF device_name \in DOMAIN history THEN device_name
       ELSE IF base_device \in DOMAIN history THEN base_device
       ELSE NoDevice

\* f"{x:.2f}": the number of hundredths, rounded
Hundredths(x) == (2 * 100 * x.n + x.d) \div (2 * x.d)

update_disk_details(s, device) ==
    IF device \notin DOMAIN s.disk_stats THEN s
    ELSE
      LET info == s.disk_stats[device]
          io_device == IoDevice(s.disk_io_history, device)
          has_io == io_device # NoDevice /\ s.disk_io_history[io_device].read # <<>>
          s1 == [s EXCEPT !.disk_labels =
                   [device |-> info.device, mountpoint |-> info.mountpoint,
                    fstype |-> info.fstype, total |-> info.total,
                    used |-> info.used, free |-> info.free,
                    percent |-> info.percent,
                    read |-> IF has_io
                             THEN Hundredths(Last(s.disk_io_history[io_device].read))
                             ELSE 0,
                    write |-> IF has_io
                              THEN Hundredths(Last(s.disk_io_history[io_device].write))
                              ELSE 0]]
      IN Did(Did(s1, "disk_pie_chart_queue_draw"), "disk_io_chart_queue_draw")

\* on_disk_selection_changed, for the row the tree selection now holds
\* (0: no row)
on_disk_selection_changed(s, row) ==
    IF row = 0 THEN s
    ELSE LET device == s.disks_list_store[row]
         IN update_disk_details([s EXCEPT !.selected_disk = device], device)

\* the angles of a wedge, in degrees clockwise from the x axis (cairo's arc
\* takes them in radians: -pi/2 is -90, 2*pi is 360, 3*pi/2 is 270)
Arc(from, to) == [from |-> from, to |-> to]
Top == [n |-> 0 - 90, d |-> 1]
\* wedges that each start at the top
PieArcsBothFromTop(used_percent) ==
    <<Arc(Top, FracAdd(Top, FracMul(Whole(360), used_percent))),
      Arc(Top, Whole(270))>>
\* the used wedge, then the free wedge
PieArcs(used_percent) ==
    <<Arc(Top, FracAdd(Top, FracMul(Whole(360), used_percent))),
      Arc(FracAdd(Top, FracMul(Whole(360), used_percent)), Whole(270))>>

\* on_disk_pie_chart_draw on a surface of positive size: the placeholder
\* message, or the pie of the selected disk's used percentage
on_disk_pie_chart_draw(s) ==
    IF s.selected_disk = NoDevice \/ s.selected_disk \notin DOMAIN s.disk_stats
    THEN [shows |-> "Select a disk to view", device |-> NoDevice, percent |-> 0,
          arcs |-> <<>>]
    ELSE [shows |-> "pie", device |-> s.disk_stats[s.selected_disk].device,
          percent |-> s.disk_stats[s.selected_disk].percent,
          arcs |-> PieArcs(Frac(s.disk_stats[s.selected_disk].percent, 100))]

\* a pie handler that never looks at the size of its area
DrawnPieAnySize(s, width, height) ==
    Painting("disk_pie_chart", width, height, on_disk_pie_chart_draw(s).shows, <<>>,
             Zero, on_disk_pie_chart_draw(s).arcs)
\* on_disk_pie_chart_draw on an area of the given size: both branches return
\* before they paint when the width or the height is not positive
DrawnPie(s, width, height) ==
    IF width <= 0 \/ height <= 0 THEN Unpainted("disk_pie_chart", width, height)
    ELSE Painting("disk_pie_chart", width, height, on_disk_pie_chart_draw(s).shows,
                  <<>>, Zero, on_disk_pie_chart_draw(s).arcs)

\* on_disk_io_chart_draw: the history the chart of the selected disk is drawn
\* from (NoDevice: "Gathering I/O data..." is shown, or nothing is drawn)
ChartIoDevice(s) ==
    IF s.selected_disk = NoDevice THEN NoDevice
    ELSE IoDevice(s.disk_io_history, s.selected_disk)

\* ------------------------------------------------------------ chart drawing
\* a draw handler that takes the oldest sample out of the history it draws
PaintAndConsume(s, painting) ==
    [s EXCEPT !.painted = painting, !.cpu_history = Append(Tail(@), 0)]
\* the effect of a draw handler on the object: none; the area shows the painting
Paint(s, painting) == [s EXCEPT !.painted = painting]

\* a spacing of one slot's share of the width
PointSpacingPerSlot(width, points) == Frac(width, points)
\* width / max(1, points - 1)
PointSpacing(width, points) ==
    Frac(width, IF points - 1 > 1 THEN points - 1 ELSE 1)
\* height - (value / scale * height * 0.9)
PlotY(value, scale, height) ==
    FracSub(Whole(height),
            FracMul(FracMul(FracDiv(value, scale), Whole(height)), Frac(9, 10)))
\* the points the loop over enumerate(history) moves and draws lines to
Polyline(history, point_spacing, scale, height) ==
    [k \in 1..Len(history) |->
        [x |-> FracMul(Whole(k - 1), point_spacing),
         y |-> PlotY(history[k], scale, height)]]
Percents(history) == [k \in 1..Len(history) |-> Whole(history[k])]

\* on_cpu_chart_draw on an area of the given size: the CPU line (the filled
\* area runs through the same points) and the memory line
on_cpu_chart_draw(s, width, height) ==
    IF width <= 0 \/ height <= 0 THEN Unpainted("cpu_chart_area", width, height)
    ELSE IF Len(s.cpu_history) > 1
    THEN LET point_spacing == PointSpacing(width, cpu_history_points)
         IN Painting("cpu_chart_area", width, height, "chart",
                     <<Polyline(Percents(s.cpu_history), point_spacing,
                                Whole(100), height),
                       Polyline(Percents(s.memory_history), point_spacing,
                                Whole(100), height)>>,
                     Whole(100), <<>>)
    ELSE Painting("cpu_chart_area", width, height, "chart", <<>>, Whole(100), <<>>)

\* a scale that looks at the read history only
MaxValOfReads(io_data) ==
    LET m == IF io_data.read # <<>> THEN FracMax(io_data.read) ELSE Whole(1)
    IN IF FracLeq(m, Whole(1)) THEN Whole(1) ELSE m
\* max_val: the largest rate of both histories, and at least 1
MaxVal(io_data) ==
    LET r == IF io_data.read # <<>> THEN FracMax(io_data.read) ELSE Whole(1)
        w == IF io_data.write # <<>> THEN FracMax(io_data.write) ELSE Whole(1)
        m == IF FracLeq(r, w) THEN w ELSE r
    IN IF FracLeq(m, Whole(1)) THEN Whole(1) ELSE m
IoLine(history, width, height, max_val) ==
    IF Len(history) > 1
    THEN Polyline(history, PointSpacing(width, Len(history)), max_val, height)
    ELSE <<>>

\* on_disk_io_chart_draw on an area of the given size: the read line and the
\* write line of the history the selected disk is charted from
on_disk_io_chart_draw(s, width, height) ==
    IF s.selected_disk = NoDevice THEN Unpainted("disk_io_chart", width, height)
    ELSE IF width <= 0 \/ height <= 0 THEN Unpainted("disk_io_chart", width, height)
    ELSE IF ChartIoDevice(s) = NoDevice
    THEN Painting("disk_io_chart", width, height, "Gathering I/O data...", <<>>, Zero, <<>>)
    ELSE LET io_data == s.disk_io_history[ChartIoDevice(s)]
             max_val == MaxVal(io_data)
         IN Painting("disk_io_chart", width, height, "chart",
                     <<IoLine(io_data.read, width, height, max_val),
                       IoLine(io_data.write, width, height, max_val)>>,
                     max_val, <<>>)

\* --------------------------------------------------------- refresh_disk_data
ExcludedFsTypes == {"squashfs", "tmpfs", "devtmpfs"}

DiskInfo(p) ==
    [device |-> p.device, mountpoint |-> p.mountpoint, fstype |-> p.fstype,
     total |-> p.usage.total, used |-> p.usage.used, free |-> p.usage.free,
     percent |-> p.usage.percent]

\* dict item assignment
Put(map, k, v) == [x \in DOMAIN map \cup {k} |-> IF x = k THEN v ELSE map[x]]

\* the loop over the partitions, from partition i on.  acc: the disk_stats and
\* the rows so far, first_device, selected_iter (a row number, 0: None) and
\* raised (an exception other than PermissionError left the loop)
RECURSIVE EnumeratePartitions(_, _, _, _)
EnumeratePartitions(parts, i, current_selection, acc) ==
    IF i > Len(parts) THEN acc
    ELSE
      LET p == parts[i] IN
      IF p.fstype \in ExcludedFsTypes
      THEN EnumeratePartitions(parts, i + 1, current_selection, acc)
      ELSE IF p.usage.err = "PermissionError"
      THEN EnumeratePartitions(parts, i + 1, current_selection, acc)
      ELSE IF p.usage.err # "none"
      THEN [acc EXCEPT !.raised = TRUE]
      ELSE
        LET rows == Append(acc.rows, p.device) IN
        EnumeratePartitions(parts, i + 1, current_selection,
          [acc EXCEPT
             !.disk_stats = Put(@, p.device, DiskInfo(p)),
             !.first_device = IF @ = NoDevice THEN p.device ELSE @,
             !.rows = rows,
             !.selected_iter = IF p.device = current_selection THEN Len(rows) ELSE @])

\* the selection step (restore, or select the first disk)
RestoreSelection(s, current_selection, selected_iter, first_device) ==
    IF selected_iter # 0
    THEN [on_disk_selection_changed(s, selected_iter)
            EXCEPT !.selected_disk = current_selection]
    ELSE IF s.selected_disk = NoDevice /\ first_device # NoDevice
    THEN LET s1 == [s EXCEPT !.selected_disk = first_device]
         IN IF Len(s1.disks_list_store) > 0
            THEN on_disk_selection_changed(s1, 1) ELSE s1
    ELSE s

refresh_disk_data(s, parts, file, fail, t) ==
    LET current_selection == s.selected_disk
        acc == EnumeratePartitions(parts, 1, current_selection,
                  [disk_stats |-> s.disk_stats, rows |-> <<>>,
                   first_device |-> NoDevice, selected_iter |-> 0,
                   raised |-> FALSE])
        s1 == Did([s EXCEPT !.disk_stats = acc.disk_stats,
                            !.disks_list_store = acc.rows], "refresh_disk_data")
    IN IF acc.raised THEN Did(s1, "error")
       ELSE
         LET s2 == update_disk_io_stats(s1, file, fail, t)
             s3 == RestoreSelection(s2, current_selection, acc.selected_iter,
                                    acc.first_device)
         IN IF s3.selected_disk # NoDevice
            THEN update_disk_details(s3, s3.selected_disk)
            ELSE s3

\* ----------------------------------------------------------- update_all_data
\* str.lower and the operator in on strings
LowerChar(c) == CASE c = "B" -> "b" [] c = "H" -> "h" [] c = "S" -> "s" [] OTHER -> c
Lower(str) == [i \in 1..Len(str) |-> LowerChar(str[i])]
Contains(str, sub) ==
    \E i \in 0..(Len(str) - Len(sub)) : SubSeq(str, i + 1, i + Len(sub)) = sub

\* a row of a process list (columns pid, name, user)
ProcessRow(p) ==
    [pid |-> p.pid, name |-> p.name, name_known |-> p.name_known,
     username |-> IF p.username = NoUser THEN "N/A" ELSE p.username]

\* on_process_selection_changed: treeiter is None or not
on_process_selection_changed(s, selected) ==
    [s EXCEPT !.end_process_button = selected]

\* a loop that puts every process in the system list, whatever its owner and
\* whatever the toggle
EnumerateProcessesUnpartitioned(s, procs, i, text) ==
    [s EXCEPT !.my_process_list_store =
                  [k \in 1..Len(SelectSeq(procs, LAMBDA p : p.username = CurrentUser))
                     |-> ProcessRow(SelectSeq(procs,
                                              LAMBDA p : p.username = CurrentUser)[k])],
              !.system_process_list_store =
                  [k \in 1..Len(procs) |-> ProcessRow(procs[k])]]

\* the loop over the processes, from process i on; info['name'].lower() raises
\* AttributeError when the name is None, which ends the loop
RECURSIVE EnumerateProcesses(_, _, _, _)
EnumerateProcesses(s, procs, i, text) ==
    IF i > Len(procs) THEN s
    ELSE
      LET p == procs[i] IN
      IF text # <<>> /\ ~p.name_known THEN Did(s, "error")
      ELSE IF text # <<>> /\ ~Contains(Lower(p.name), text)
      THEN EnumerateProcesses(s, procs, i + 1, text)
      ELSE IF p.username = CurrentUser
      THEN EnumerateProcesses(
             [s EXCEPT !.my_process_list_store = Append(@, ProcessRow(p))],
             procs, i + 1, text)
      ELSE IF s.show_system_processes
      THEN EnumerateProcesses(
             [s EXCEPT !.system_process_list_store = Append(@, ProcessRow(p))],
             procs, i + 1, text)
      ELSE EnumerateProcesses(s, procs, i + 1, text)

\* list_store.clear(): the selection of the tree is lost, and the tree emits
\* "changed" if it had one
ClearMine(s) ==
    LET s1 == [s EXCEPT !.my_process_list_store = <<>>, !.my_selection = 0]
    IN IF s.my_selection # 0 THEN on_process_selection_changed(s1, FALSE) ELSE s1
ClearSystem(s) ==
    LET s1 == [s EXCEPT !.system_process_list_store = <<>>, !.system_selection = 0]
    IN IF s.system_selection # 0 THEN on_process_selection_changed(s1, FALSE) ELSE s1

\* procs: what psutil.process_iter yields
RefreshProcesses(s, procs) ==
    EnumerateProcesses(Did(ClearSystem(ClearMine(s)), "refresh_processes"),
                       procs, 1, Lower(s.search_text))
\* the process table is read where the handler runs
refresh_processes(s) == RefreshProcesses(s, processes)
\* refresh_users touches none of the fields modelled here
refresh_users(s) == Did(s, "refresh_users")

\* the branch on the current tab
SampleCurrentPageDisksOnProcesses(s, parts, file, fail, t) ==
    IF s.current_page = PerformancePage THEN update_performance_data(s, fail)
    ELSE IF s.current_page = ProcessesPage
    THEN refresh_disk_data(refresh_processes(s), parts, file, fail, t)
    ELSE IF s.current_page = UsersPage THEN refresh_users(s)
    ELSE IF s.current_page = DisksPage THEN refresh_disk_data(s, parts, file, fail, t)
    ELSE s
SampleCurrentPage(s, parts, file, fail, t) ==
    IF s.current_page = PerformancePage THEN update_performance_data(s, fail)
    ELSE IF s.current_page = ProcessesPage THEN refresh_processes(s)
    ELSE IF s.current_page = UsersPage THEN refresh_users(s)
    ELSE IF s.current_page = DisksPage THEN refresh_disk_data(s, parts, file, fail, t)
    ELSE s

update_all_data(s, parts, file, fail, t) ==
    update_performance_data(SampleCurrentPage(s, parts, file, fail, t), fail)

\* --------------------------------------------------------- start_update_timer
\* GLib.source_remove of the old source, GLib.timeout_add_seconds of a new one
\* with id new_id at time t
StartUpdateTimerKeepOld(tm, timer_id, new_id, interval, t) ==
    Put(tm, new_id, [period |-> interval, due |-> t + interval])
StartUpdateTimerDueNow(tm, timer_id, new_id, interval, t) ==
    Put([id \in DOMAIN tm \ {timer_id} |-> tm[id]],
        new_id, [period |-> interval, due |-> t + 1])
StartUpdateTimer(tm, timer_id, new_id, interval, t) ==
    LET kept == IF timer_id # NoTimer
                THEN [id \in DOMAIN tm \ {timer_id} |-> tm[id]] ELSE tm
    IN Put(kept, new_id, [period |-> interval, due |-> t + interval])

\* ------------------------------------------------------------------- actions
Commit(s) ==
    /\ current_page' = s.current_page
    /\ update_interval' = s.update_interval
    /\ cpu_history' = s.cpu_history
    /\ memory_history' = s.memory_history
    /\ disk_stats' = s.disk_stats
    /\ disk_io_history' = s.disk_io_history
    /\ selected_disk' = s.selected_disk
    /\ last_disk_io' = s.last_disk_io
    /\ disks_list_store' = s.disks_list_store
    /\ disk_labels' = s.disk_labels
    /\ show_system_processes' = s.show_system_processes
    /\ search_text' = s.search_text
    /\ my_process_list_store' = s.my_process_list_store
    /\ system_process_list_store' = s.system_process_list_store
    /\ my_selection' = s.my_selection
    /\ system_selection' = s.system_selection
    /\ end_process_button' = s.end_process_button
    /\ painted' = s.painted
    /\ cpu_count' = s.cpu_count
    /\ memory_count' = s.memory_count
    /\ io_count' = s.io_count
    /\ last_io_time' = s.last_io_time
    /\ events' = s.events

\* __init__: the timer is started, then refresh_all() and refresh_disk_data()
\* run on the Performance tab
InitWith(tables, files) ==
    /\ now = 0
    /\ processes = StartProcesses
    /\ running = <<>>
    /\ signals = <<>>
    /\ pending_refreshes = 0
    /\ partitions \in tables
    /\ diskstats \in files
    /\ fault = "none"
    /\ timers = StartUpdateTimer(EmptyMap, NoTimer, 1, DefaultInterval, 0)
    /\ next_source_id = 2
    /\ update_timer_id = 1
    /\ LET s1 == update_all_data(NewSelf, partitions, diskstats, fault, 0)
           s2 == refresh_disk_data(s1, partitions, diskstats, fault, 0)
       IN /\ current_page = s2.current_page
          /\ update_interval = s2.update_interval
          /\ cpu_history = s2.cpu_history
          /\ memory_history = s2.memory_history
          /\ disk_stats = s2.disk_stats
          /\ disk_io_history = s2.disk_io_history
          /\ selected_disk = s2.selected_disk
          /\ last_disk_io = s2.last_disk_io
          /\ disks_list_store = s2.disks_list_store
          /\ disk_labels = s2.disk_labels
          /\ show_system_processes = s2.show_system_processes
          /\ search_text = s2.search_text
          /\ my_process_list_store = s2.my_process_list_store
          /\ system_process_list_store = s2.system_process_list_store
          /\ my_selection = s2.my_selection
          /\ system_selection = s2.system_selection
          /\ end_process_button = s2.end_process_button
          /\ painted = s2.painted
          /\ cpu_count = s2.cpu_count
          /\ memory_count = s2.memory_count
          /\ io_count = s2.io_count
          /\ last_io_time = s2.last_io_time
    /\ last_change = 0
    /\ op = "init"
    /\ events = <<>>
    /\ changes = 0

Init == InitWith(PartitionTables, DiskStatsFiles)

\* no dialog is open: the main window takes the user's input
Idle == running = <<>>
\* a handler that has called dialog.run() waits in it, while the main loop
\* dispatches timers
Waiting(handler, at, pid, outcome) ==
    [handler |-> handler, at |-> at, pid |-> pid, outcome |-> outcome]
\* the handlers waiting after a handler with result s has run: it waits too if
\* it has called dialog.run()
AfterHandler(stack, handler, s) ==
    IF \E i \in 1..Len(s.events) : s.events[i] = "dialog_run"
    THEN Append(stack, Waiting(handler, "error", 0, "none"))
    ELSE stack

\* the timer callback: GLib calls update_all_data when the source is due; it
\* returns True, so the source stays armed, one period after this dispatch
TimerFires(id) ==
    /\ timers[id].due <= now
    /\ Commit(update_all_data(Self, partitions, diskstats, fault, now))
    /\ timers' = [timers EXCEPT ![id].due = now + timers[id].period]
    /\ running' = AfterHandler(running, "update_all_data",
                               update_all_data(Self, partitions, diskstats, fault, now))
    /\ op' = "tick"
    /\ UNCHANGED <<envVars, next_source_id, update_timer_id, last_change, changes,
                   signals, pending_refreshes>>

\* the exploration stops sampling after MaxSamples samples of one metric
WithinSamples ==
    /\ cpu_count < MaxSamples
    /\ \A d \in DOMAIN io_count : io_count[d] < MaxSamples

Tick == WithinSamples /\ \E id \in DOMAIN timers : TimerFires(id)

\* the Refresh button: refresh_all
RefreshAll ==
    /\ Idle
    /\ WithinSamples
    /\ Commit(update_all_data(Self, partitions, diskstats, fault, now))
    /\ running' = AfterHandler(running, "refresh_all",
                               update_all_data(Self, partitions, diskstats, fault, now))
    /\ op' = "refresh_all"
    /\ UNCHANGED <<envVars, glibVars, update_timer_id, last_change, changes,
                   signals, pending_refreshes>>

\* a radio item of the Update Interval menu becomes active: on_interval_changed
\* (the item that becomes inactive runs the handler too, which does nothing)
IntervalChanged ==
    \E interval \in Intervals \ {update_interval} :
      /\ Idle
      /\ changes < MaxChanges
      /\ changes' = changes + 1
      /\ Commit([Self EXCEPT !.update_interval = interval])
      /\ timers' = StartUpdateTimer(timers, update_timer_id, next_source_id,
                                    interval, now)
      /\ update_timer_id' = next_source_id
      /\ next_source_id' = next_source_id + 1
      /\ last_change' = now
      /\ op' = "interval_changed"
      /\ UNCHANGED <<envVars, loopVars>>

\* the user opens another tab (no handler is connected)
SwitchPageTo(pages) ==
    \E page \in pages \ {current_page} :
      /\ Idle
      /\ Commit([Self EXCEPT !.current_page = page])
      /\ op' = "none"
      /\ UNCHANGED <<envVars, glibVars, loopVars, update_timer_id, last_change,
                     changes>>

SwitchPage == SwitchPageTo(Pages)

\* the user selects a row of the disk list: on_disk_selection_changed
SelectDisk ==
    \E row \in 1..Len(disks_list_store) :
      /\ Idle
      /\ disks_list_store[row] # selected_disk
      /\ Commit(on_disk_selection_changed(Self, row))
      /\ op' = "select_disk"
      /\ UNCHANGED <<envVars, glibVars, loopVars, update_timer_id, last_change,
                     changes>>

\* a second passes; a due timer is dispatched before the clock moves on
TimePasses ==
    /\ now < MaxTime
    /\ \A id \in DOMAIN timers : timers[id].due > now
    /\ now' = now + 1
    /\ op' = "none"
    /\ events' = <<>>
    /\ UNCHANGED <<partitions, diskstats, fault, processes, glibVars, loopVars, appVars, cpu_count, memory_count,
                   io_count, last_io_time, last_change, changes>>

\* sda reads and writes: its counters grow
Grows(old, new) ==
    /\ Sda \in DOMAIN old /\ Sda \in DOMAIN new
    /\ new[Sda].sectors_read >= old[Sda].sectors_read
    /\ new[Sda].sectors_written >= old[Sda].sectors_written
DiskActivity ==
    /\ \E file \in DiskStatsFiles \ {diskstats} :
         Grows(diskstats, file) /\ diskstats' = file
    /\ op' = "none"
    /\ events' = <<>>
    /\ UNCHANGED <<now, partitions, fault, processes, glibVars, loopVars, appVars, cpu_count, memory_count,
                   io_count, last_io_time, last_change, changes>>

\* a counter of sda is reset, or sda appears or disappears
DiskReset ==
    /\ changes < MaxChanges
    /\ changes' = changes + 1
    /\ \E file \in DiskStatsFiles \ {diskstats} :
         ~Grows(diskstats, file) /\ diskstats' = file
    /\ op' = "none"
    /\ events' = <<>>
    /\ UNCHANGED <<now, partitions, fault, processes, glibVars, loopVars, appVars, cpu_count, memory_count,
                   io_count, last_io_time, last_change>>

\* file systems are mounted and unmounted
Remount ==
    /\ changes < MaxChanges
    /\ changes' = changes + 1
    /\ \E parts \in PartitionTables \ {partitions} : partitions' = parts
    /\ op' = "none"
    /\ events' = <<>>
    /\ UNCHANGED <<now, diskstats, fault, processes, glibVars, loopVars, appVars, cpu_count, memory_count,
                   io_count, last_io_time, last_change>>

\* a metric call starts or stops raising
FaultChanges ==
    /\ changes < MaxChanges
    /\ changes' = changes + 1
    /\ \E f \in Faults \ {fault} : fault' = f
    /\ op' = "none"
    /\ events' = <<>>
    /\ UNCHANGED <<now, partitions, diskstats, processes, glibVars, loopVars, appVars, cpu_count,
                   memory_count, io_count, last_io_time, last_change>>

\* GTK emits "draw" for a drawing area, allocated width x height pixels
DrawCpuChartAt(widths, heights) ==
    \E width \in widths, height \in heights :
      /\ Commit(Paint(Self, on_cpu_chart_draw(Self, width, height)))
      /\ op' = "on_cpu_chart_draw"
      /\ UNCHANGED <<envVars, glibVars, loopVars, update_timer_id, last_change,
                     changes>>
DrawDiskPieChartAt(widths, heights) ==
    \E width \in widths, height \in heights :
      /\ Commit(Paint(Self, DrawnPie(Self, width, height)))
      /\ op' = "on_disk_pie_chart_draw"
      /\ UNCHANGED <<envVars, glibVars, loopVars, update_timer_id, last_change,
                     changes>>
DrawDiskIoChartAt(widths, heights) ==
    \E width \in widths, height \in heights :
      /\ Commit(Paint(Self, on_disk_io_chart_draw(Self, width, height)))
      /\ op' = "on_disk_io_chart_draw"
      /\ UNCHANGED <<envVars, glibVars, loopVars, update_timer_id, last_change,
                     changes>>
DrawCpuChart == DrawCpuChartAt(ChartWidths, ChartHeights)
DrawDiskPieChart == DrawDiskPieChartAt(ChartWidths \ {0}, ChartHeights \ {0})
DrawDiskIoChart == DrawDiskIoChartAt(ChartWidths, ChartHeights)

\* sda reads or writes a burst of sectors
Burst ==
    /\ Sda \in DOMAIN diskstats
    /\ \E r \in {0, BurstSectors}, w \in {0, BurstSectors} :
         /\ r + w > 0
         /\ diskstats[Sda].sectors_read + r <= MaxSectors * BurstSectors
         /\ diskstats[Sda].sectors_written + w <= MaxSectors * BurstSectors
         /\ diskstats' = StatsFile(diskstats[Sda].sectors_read + r,
                                   diskstats[Sda].sectors_written + w)
    /\ op' = "none"
    /\ events' = <<>>
    /\ UNCHANGED <<now, partitions, fault, processes, glibVars, loopVars, appVars,
                   cpu_count, memory_count, io_count, last_io_time, last_change,
                   changes>>

\* the Show System Processes item is toggled: toggle_system_processes
ToggleSystemProcesses ==
    /\ Idle
    /\ Commit(refresh_processes([Self EXCEPT !.show_system_processes = ~@]))
    /\ op' = "toggle_system_processes"
    /\ UNCHANGED <<envVars, glibVars, loopVars, update_timer_id, last_change,
                   changes>>

\* the user edits the filter entry: on_process_search_changed
SearchChanged ==
    \E text \in SearchTexts \ {search_text} :
      /\ Idle
      /\ Commit(refresh_processes([Self EXCEPT !.search_text = text]))
      /\ op' = "search_changed"
      /\ UNCHANGED <<envVars, glibVars, loopVars, update_timer_id, last_change,
                     changes>>

\* the user selects a row of one of the two process lists:
\* on_process_selection_changed
SelectMyProcess ==
    \E row \in 1..Len(my_process_list_store) :
      /\ Idle
      /\ row # my_selection
      /\ Commit(Did(on_process_selection_changed([Self EXCEPT !.my_selection = row],
                                                  TRUE), "my_process_tree"))
      /\ op' = "select_process"
      /\ UNCHANGED <<envVars, glibVars, loopVars, update_timer_id, last_change,
                     changes>>
SelectSystemProcess ==
    \E row \in 1..Len(system_process_list_store) :
      /\ Idle
      /\ row # system_selection
      /\ Commit(Did(on_process_selection_changed(
                        [Self EXCEPT !.system_selection = row], TRUE),
                    "system_process_tree"))
      /\ op' = "select_process"
      /\ UNCHANGED <<envVars, glibVars, loopVars, update_timer_id, last_change,
                     changes>>

\* end_selected_process, up to dialog.run(): the row of the first tree that has
\* a selection (pid 0: no tree has one, the handler returns)
SelectedProcess(s) ==
    IF s.my_selection # 0 THEN s.my_process_list_store[s.my_selection].pid
    ELSE IF s.system_selection # 0
    THEN s.system_process_list_store[s.system_selection].pid
    ELSE 0
EndProcessClicked ==
    /\ Idle
    /\ end_process_button
    /\ Len(signals) < MaxSignals
    /\ running' = IF SelectedProcess(Self) = 0 THEN running
                  ELSE Append(running, Waiting("end_selected_process", "confirm",
                                               SelectedProcess(Self), "none"))
    /\ Commit(IF SelectedProcess(Self) = 0 THEN Self ELSE Did(Self, "dialog_run"))
    /\ op' = "end_selected_process"
    /\ UNCHANGED <<envVars, glibVars, signals, pending_refreshes, update_timer_id,
                   last_change, changes>>

\* what os.kill(pid, SIGTERM) does: "success", or the exception it raises
KillResults(procs, pid) ==
    LET found == {i \in 1..Len(procs) : procs[i].pid = pid}
    IN IF found = {} THEN {"not_found"}
       ELSE LET p == procs[CHOOSE i \in found : TRUE]
            IN IF p.username = CurrentUser THEN {"success"}
               ELSE IF p.username = NoUser THEN {"permission_denied", "other"}
               ELSE {"permission_denied"}
\* the signals end_selected_process sends after the answer Yes
TerminateSignalsEscalating(pid, result) ==
    IF result = "success" THEN <<[pid |-> pid, signal |-> "SIGTERM"]>>
    ELSE <<[pid |-> pid, signal |-> "SIGTERM"], [pid |-> pid, signal |-> "SIGKILL"]>>
TerminateSignals(pid, result) == <<[pid |-> pid, signal |-> "SIGTERM"]>>

\* end_selected_process, from the answer of the confirmation dialog on
DialogResponse ==
    /\ running # <<>>
    /\ Last(running).at = "confirm"
    /\ \E yes \in BOOLEAN :
         IF ~yes
         THEN /\ running' = SubSeq(running, 1, Len(running) - 1)
              /\ Commit(Did(Self, "no"))
              /\ UNCHANGED <<signals, pending_refreshes>>
         ELSE \E result \in KillResults(processes, Last(running).pid) :
                /\ signals' = signals \o TerminateSignals(Last(running).pid, result)
                /\ IF result = "success"
                   THEN /\ pending_refreshes' = pending_refreshes + 1
                        /\ running' = SubSeq(running, 1, Len(running) - 1)
                        /\ Commit(Did(Did(Self, "os.kill"), result))
                   ELSE /\ pending_refreshes' = pending_refreshes
                        /\ running' = [running EXCEPT ![Len(running)] =
                               Waiting("end_selected_process", "error", @.pid, result)]
                        /\ Commit(Did(Did(Did(Self, "os.kill"), result), "dialog_run"))
    /\ op' = "dialog_response"
    /\ UNCHANGED <<envVars, glibVars, update_timer_id, last_change, changes>>

\* the user closes an error dialog: show_error returns, and so does its caller
DismissError ==
    /\ running # <<>>
    /\ Last(running).at = "error"
    /\ running' = SubSeq(running, 1, Len(running) - 1)
    /\ Commit(Self)
    /\ op' = "none"
    /\ UNCHANGED <<envVars, glibVars, signals, pending_refreshes, update_timer_id,
                   last_change, changes>>

\* the one-shot source armed by GLib.timeout_add(500, self.refresh_processes)
\* fires: refresh_processes returns None, so the source is removed
DelayedRefresh ==
    /\ pending_refreshes > 0
    /\ pending_refreshes' = pending_refreshes - 1
    /\ Commit(refresh_processes(Self))
    /\ op' = "refresh_processes"
    /\ UNCHANGED <<envVars, glibVars, running, signals, update_timer_id, last_change,
                   changes>>

\* processes start and exit
ProcessesChange ==
    /\ changes < MaxChanges
    /\ changes' = changes + 1
    /\ \E procs \in ProcessTables \ {processes} : processes' = procs
    /\ op' = "none"
    /\ events' = <<>>
    /\ UNCHANGED <<now, partitions, diskstats, fault, glibVars, loopVars, appVars,
                   cpu_count, memory_count, io_count, last_io_time, last_change>>

Next ==
    \/ DrawCpuChart
    \/ DrawDiskPieChart
    \/ DrawDiskIoChart
    \/ Burst
    \/ ToggleSystemProcesses
    \/ SearchChanged
    \/ SelectMyProcess
    \/ SelectSystemProcess
    \/ EndProcessClicked
    \/ DialogResponse
    \/ DismissError
    \/ DelayedRefresh
    \/ ProcessesChange
    \/ FaultChanges
    \/ Tick
    \/ RefreshAll
    \/ IntervalChanged
    \/ SwitchPage
    \/ SelectDisk
    \/ TimePasses
    \/ DiskActivity
    \/ DiskReset
    \/ Remount

\* every behaviour of the model
SpecAll == Init /\ [][Next]_vars

\* The scheduler and the CPU/memory sampling: the environment of the disks is
\* fixed (both partitions mounted, sda idle)
InitSched == Init /\ partitions = BothMounted /\ diskstats = StatsFile(0, 0)
NextSched ==
    \/ FaultChanges
    \/ Tick
    \/ RefreshAll
    \/ IntervalChanged
    \/ SwitchPage
    \/ TimePasses
Spec == InitSched /\ [][NextSched]_vars

\* The disk I/O sampling: the partitions and the interval are fixed, sda reads,
\* writes and is reset, the user goes between the Performance and Disks tabs
InitIo == Init /\ partitions = BothMounted /\ diskstats = StatsFile(0, 0)
SwitchPerformanceDisks == SwitchPageTo({PerformancePage, DisksPage})
NextIo ==
    \/ Tick
    \/ RefreshAll
    \/ SwitchPerformanceDisks
    \/ TimePasses
    \/ DiskActivity
    \/ DiskReset
SpecIo == InitIo /\ [][NextIo]_vars

\* The disk list and the selected disk: file systems come and go, sda is idle
InitDisks == Init /\ diskstats = StatsFile(0, 0)
NextDisks ==
    \/ Tick
    \/ RefreshAll
    \/ SwitchPage
    \/ SelectDisk
    \/ TimePasses
    \/ Remount
SpecDisks == InitDisks /\ [][NextDisks]_vars

\* A long run, in which the histories wrap around: the user opens a tab at
\* start-up, and from then on only the timer runs; sda reads and writes
\* steadily
SectorsReadBy(t) == t + (t \div 3)
SectorsWrittenBy(t) == 2 * t - (t \div 2)
LongTick == \E id \in DOMAIN timers : TimerFires(id)
SwitchPageAtStart == now = 0 /\ op = "init" /\ SwitchPage
LongTimePasses ==
    /\ now < LongMaxTime
    /\ \A id \in DOMAIN timers : timers[id].due > now
    /\ now' = now + 1
    /\ diskstats' = StatsFile(SectorsReadBy(now + 1), SectorsWrittenBy(now + 1))
    /\ op' = "none"
    /\ events' = <<>>
    /\ UNCHANGED <<partitions, fault, processes, glibVars, loopVars, appVars, cpu_count, memory_count,
                   io_count, last_io_time, last_change, changes>>
InitLong == Init /\ partitions = BothMounted /\ diskstats = StatsFile(0, 0)
NextLong ==
    \/ LongTick
    \/ SwitchPageAtStart
    \/ LongTimePasses
SpecLong == InitLong /\ [][NextLong]_vars

\* ================================================================ properties
InEvents(e) == \E i \in 1..Len(events) : events[i] = e
\* new is old with its k oldest entries dropped and k entries added at the tail
ShiftedBy(old, new, k) ==
    /\ Len(new) = Len(old)
    /\ SubSeq(new, 1, Len(old) - k) = SubSeq(old, k + 1, Len(old))
    /\ new # old
Advanced(old, new) == \E k \in 1..2 : ShiftedBy(old, new, k)

\* C1: every tick performs exactly one sampling pass: whichever tab is active,
\* the CPU history and the memory history each receive exactly one new sample
\* per tick, never zero and never two (stated for the ticks in which no metric
\* call raises)
C1_OneSamplePerTick ==
    [][(op' = "tick" /\ fault = "none") =>
          /\ ShiftedBy(cpu_history, cpu_history', 1)
          /\ ShiftedBy(memory_history, memory_history', 1)
          /\ cpu_count' = cpu_count + 1
          /\ memory_count' = memory_count + 1]_vars

\* C6: an interval change (a) runs no sampling pass and (b) cancels the timer
\* and arms a new one, so that the next tick comes one full new interval after
\* the change, whatever part of the old interval had elapsed
C6_IntervalChangeRestartsTimer ==
    /\ [](op = "tick" => now >= last_change + update_interval)
    /\ [][op' = "interval_changed" =>
            /\ cpu_history' = cpu_history
            /\ memory_history' = memory_history
            /\ disk_stats' = disk_stats
            /\ disk_io_history' = disk_io_history
            /\ last_disk_io' = last_disk_io
            /\ events' = <<>>
            /\ update_timer_id \notin DOMAIN timers'
            /\ \A id \in DOMAIN timers' :
                 timers'[id].due = now + update_interval']_vars
\* the first tick after a change made while the old interval was running
C6_Witness ==
    /\ op = "tick"
    /\ last_change > 0
    /\ now = last_change + update_interval

\* C7: at every moment exactly one refresh timer is armed, the one the object
\* holds; its period is the current update interval, which is 1, 2, 5 or 10
\* seconds, and 2 seconds at start-up
C7_OneTimer ==
    /\ Cardinality(DOMAIN timers) = 1
    /\ DOMAIN timers = {update_timer_id}
    /\ timers[update_timer_id].period = update_interval
    /\ update_interval \in {1, 2, 5, 10}
    /\ (op = "init" => update_interval = 2)
\* a tick of the timer armed by a change to 1 second
C7_Witness ==
    /\ op = "tick"
    /\ update_interval = 1
    /\ last_change > 0
    /\ timers[update_timer_id].period = 1

\* the process list, the user list and the disk data (with the disk I/O
\* snapshot) are re-sampled by a tick only when their own tab is active
TickRouting ==
    /\ op' = "tick" /\ InEvents("refresh_processes")' => current_page = ProcessesPage
    /\ op' = "tick" /\ InEvents("refresh_users")' => current_page = UsersPage
    /\ op' = "tick" /\ InEvents("refresh_disk_data")' => current_page = DisksPage
    /\ op' = "tick" /\ InEvents("io_pass")' => current_page = DisksPage
    /\ op' = "tick" /\ current_page # DisksPage =>
         UNCHANGED <<disk_stats, disk_io_history, last_disk_io, last_io_time,
                     disks_list_store, selected_disk, disk_labels>>

BytesPerSecond(x) == [n |-> x.n * 1048576, d |-> x.d]
\* the bytes device d has read and written since the previous snapshot, by the
\* counters of /proc/diskstats
ReadDelta(d) == diskstats[d].sectors_read * 512 - last_disk_io[d].read_bytes
WriteDelta(d) == diskstats[d].sectors_written * 512 - last_disk_io[d].write_bytes

\* C2: with w0, r0 the previous snapshot of a device and w1, r1 the counters
\* read t > 0 seconds later (both differences non-negative), the rates the
\* pass records are (r1 - r0) / t and (w1 - w0) / t bytes per second: the
\* elapsed time is the divisor
C2_RateOverElapsedTime ==
    [][InEvents("io_pass")' =>
         \A d \in DOMAIN diskstats \cap DOMAIN last_disk_io :
            (ReadDelta(d) >= 0 /\ WriteDelta(d) >= 0 /\ now > last_io_time) =>
               /\ FracEq(BytesPerSecond(Last(disk_io_history'[d].read)),
                         [n |-> ReadDelta(d), d |-> now - last_io_time])
               /\ FracEq(BytesPerSecond(Last(disk_io_history'[d].write)),
                         [n |-> WriteDelta(d), d |-> now - last_io_time])]_vars

\* the histories of device d before a pass (created with 30 zeros when the
\* pass is the first to record a sample of d)
HistoryBefore(d) ==
    IF d \in DOMAIN disk_io_history THEN disk_io_history[d]
    ELSE [read |-> [i \in 1..30 |-> Zero], write |-> [i \in 1..30 |-> Zero]]
CountBefore(d) == IF d \in DOMAIN io_count THEN io_count[d] ELSE 0
ReceivedOne(old, new) ==
    /\ Len(new) = Len(old)
    /\ SubSeq(new, 1, Len(old) - 1) = Tail(old)
NoNegativeSample ==
    \A d \in DOMAIN disk_io_history :
       /\ \A i \in 1..Len(disk_io_history[d].read) :
            disk_io_history[d].read[i].n >= 0 /\ disk_io_history[d].read[i].d > 0
       /\ \A i \in 1..Len(disk_io_history[d].write) :
            disk_io_history[d].write[i].n >= 0 /\ disk_io_history[d].write[i].d > 0

\* C3: in one I/O sampling pass the read history and the write history of a
\* device each receive exactly one new sample if the device has a previous
\* snapshot and both counter differences are non-negative; otherwise neither
\* history changes.  No history ever holds a negative sample
C3_OneSamplePerPass ==
    /\ []NoNegativeSample
    /\ [][InEvents("io_pass")' =>
            \A d \in DOMAIN diskstats \cup DOMAIN disk_io_history :
               IF /\ d \in DOMAIN diskstats
                  /\ d \in DOMAIN last_disk_io
                  /\ ReadDelta(d) >= 0
                  /\ WriteDelta(d) >= 0
               THEN /\ d \in DOMAIN disk_io_history'
                    /\ ReceivedOne(HistoryBefore(d).read, disk_io_history'[d].read)
                    /\ ReceivedOne(HistoryBefore(d).write, disk_io_history'[d].write)
                    /\ io_count'[d] = CountBefore(d) + 1
               ELSE /\ d \in DOMAIN disk_io_history =>
                         /\ d \in DOMAIN disk_io_history'
                         /\ disk_io_history'[d] = disk_io_history[d]
                    /\ d \notin DOMAIN disk_io_history =>
                         d \notin DOMAIN disk_io_history']_vars
\* a pass has recorded a read rate above zero for sda, the read counter was
\* then reset, and the pass that ran last found the negative difference and
\* recorded nothing
C3_Witness ==
    /\ InEvents("io_pass")
    /\ Sda \in DOMAIN disk_io_history
    /\ Last(disk_io_history[Sda].read).n > 0
    /\ Sda \in DOMAIN last_disk_io
    /\ last_disk_io[Sda].read_bytes = 0

\* C4, as the specification states it: after N appends to a history buffer of
\* capacity C, the renderer sees min(N, C) values in it
C4_Original ==
    /\ Len(cpu_history) = Min(cpu_count, 60)
    /\ Len(memory_history) = Min(memory_count, 60)
    /\ \A d \in DOMAIN disk_io_history :
         /\ Len(disk_io_history[d].read) = Min(io_count[d], 30)
         /\ Len(disk_io_history[d].write) = Min(io_count[d], 30)
\* the first C - min(N, C) entries of buffer h are the zero it was created with
LeadingZeros(h, N, C, zero) ==
    \A i \in 1..Len(h) : i <= C - Min(N, C) => h[i] = zero
\* C4, amended: a history buffer is created holding C zeros, so the renderer
\* always sees C values in it: after N appends, C - min(N, C) of the initial
\* zeros followed by min(N, C) samples
C4_Amended ==
    /\ Len(cpu_history) = 60
    /\ LeadingZeros(cpu_history, cpu_count, 60, 0)
    /\ Len(memory_history) = 60
    /\ LeadingZeros(memory_history, memory_count, 60, 0)
    /\ DOMAIN disk_io_history = DOMAIN io_count
    /\ \A d \in DOMAIN disk_io_history :
         /\ Len(disk_io_history[d].read) = 30
         /\ LeadingZeros(disk_io_history[d].read, io_count[d], 30, Zero)
         /\ Len(disk_io_history[d].write) = 30
         /\ LeadingZeros(disk_io_history[d].write, io_count[d], 30, Zero)
\* fewer samples than the capacity have been appended to every buffer
C4_Witness ==
    /\ cpu_count < 60
    /\ memory_count < 60
    /\ Sda \in DOMAIN io_count
    /\ io_count[Sda] = 5
    /\ Len(disk_io_history[Sda].read) = 30

\* the samples appended so far, in the order of their appends: the CPU and
\* memory readings, and (on the Disks tab of the long run, a pass every 2
\* seconds) the rates of sda
CpuLog == [i \in 1..cpu_count |-> CpuReading(i - 1)]
MemoryLog == [i \in 1..memory_count |-> MemoryReading(i - 1)]
ReadLog(d) ==
    [j \in 1..io_count[d] |->
        Frac((SectorsReadBy(2 * j) - SectorsReadBy(2 * j - 2)) * 512, 2 * 1048576)]
WriteLog(d) ==
    [j \in 1..io_count[d] |->
        Frac((SectorsWrittenBy(2 * j) - SectorsWrittenBy(2 * j - 2)) * 512, 2 * 1048576)]
\* the last min(N, C) entries of h are the last min(N, C) entries of log
HoldsMostRecent(h, log, C) ==
    /\ Len(h) <= C
    /\ Suffix(h, Min(Len(log), C)) = Suffix(log, Min(Len(log), C))
\* new is old with k samples added at the tail, the oldest entries evicted
\* where the capacity C would be exceeded
AppendedAtTail(old, new, C) ==
    \E k \in 0..2 :
       /\ Len(new) = Min(Len(old) + k, C)
       /\ SubSeq(new, 1, Len(new) - k)
            = SubSeq(old, Len(old) + k - Len(new) + 1, Len(old))

\* C5: the length of a history buffer never exceeds its capacity (60 for CPU
\* and memory, 30 for the read and write history of a device); a new sample
\* goes to the tail, the oldest entry is evicted when the buffer is full, and
\* the last min(N, C) entries are the most recent samples in the order of
\* their appends
C5_BoundedChronological ==
    /\ [](/\ HoldsMostRecent(cpu_history, CpuLog, 60)
          /\ HoldsMostRecent(memory_history, MemoryLog, 60)
          /\ \A d \in DOMAIN disk_io_history :
               /\ HoldsMostRecent(disk_io_history[d].read, ReadLog(d), 30)
               /\ HoldsMostRecent(disk_io_history[d].write, WriteLog(d), 30))
    /\ [][/\ AppendedAtTail(cpu_history, cpu_history', 60)
          /\ AppendedAtTail(memory_history, memory_history', 60)
          /\ \A d \in DOMAIN disk_io_history :
               /\ d \in DOMAIN disk_io_history'
               /\ AppendedAtTail(disk_io_history[d].read, disk_io_history'[d].read, 30)
               /\ AppendedAtTail(disk_io_history[d].write, disk_io_history'[d].write,
                                 30)]_vars
\* every buffer has received more samples than it can hold
C5_Witness ==
    /\ cpu_count > 60
    /\ memory_count > 60
    /\ Sda \in DOMAIN io_count
    /\ io_count[Sda] > 30

\* the partitions a refresh is to enumerate: not of an excluded filesystem
\* type, usage readable
Readable(p) ==
    p.fstype \notin {"squashfs", "tmpfs", "devtmpfs"} /\ p.usage.err = "none"
ReadableRows(parts) == {i \in 1..Len(parts) : Readable(parts[i])}
EnumerableDevices(parts) == {parts[i].device : i \in ReadableRows(parts)}
FirstEnumerable(parts) ==
    IF ReadableRows(parts) = {} THEN NoDevice
    ELSE parts[CHOOSE i \in ReadableRows(parts) :
                 \A j \in ReadableRows(parts) : i <= j].device

\* C9: the selected disk defaults to the first enumerated device (the first
\* partition of the first refresh that is not of an excluded filesystem type
\* and whose usage is readable), and a later refresh in which the selected
\* device is still enumerated leaves the selected disk unchanged
C9_DefaultAndPreserved ==
    /\ []((op = "init" /\ FirstEnumerable(partitions) # NoDevice) =>
            selected_disk = FirstEnumerable(partitions))
    /\ [][(/\ InEvents("refresh_disk_data")'
           /\ selected_disk # NoDevice
           /\ selected_disk \in EnumerableDevices(partitions)) =>
              selected_disk' = selected_disk]_vars

\* C10: if the selected disk is not among the partitions a refresh enumerates,
\* then after that refresh the pie chart shows the placeholder and the details
\* are not those of the vanished disk
C10_PlaceholderWhenGone ==
    (/\ InEvents("refresh_disk_data")
     /\ selected_disk # NoDevice
     /\ selected_disk \notin EnumerableDevices(partitions)) =>
        /\ on_disk_pie_chart_draw(Self).shows = "Select a disk to view"
        /\ disk_labels.device # selected_disk

\* C11: the disk snapshot is replaced wholesale on each refresh: after a disk
\* refresh the snapshot map holds an entry for exactly the devices enumerated
\* in that refresh, and no entry left over from an earlier refresh
C11_SnapshotReplacedWholesale ==
    InEvents("refresh_disk_data") =>
        DOMAIN disk_stats = EnumerableDevices(partitions)

\* The lookup of the I/O history of a partition: one partition is mounted, its
\* device name and the devices listed in /proc/diskstats vary
NamedDevices == {DevSda1, Sda1, DevNvme0n1p2}
ListedDevices == {Sda, Sda1, Nvme0n1, Nvme0n1p, Nvme0n1p2, Nvmenp}
InitNames ==
    InitWith({<<Partition(dev, "/", "ext4", Usage(4, 1))>> : dev \in NamedDevices},
             {[d \in {Loop0} \cup listed |->
                  IF d = Loop0 THEN StatLine(1, 1) ELSE StatLine(0, 0)] :
                listed \in SUBSET ListedDevices})
NextNames ==
    \/ Tick
    \/ SwitchPerformanceDisks
    \/ TimePasses
SpecNames == InitNames /\ [][NextNames]_vars

\* a name without its leading path prefix (all up to the last "/")
RECURSIVE AfterLastSlash(_)
AfterLastSlash(s) ==
    IF \E i \in 1..Len(s) : s[i] = "/" THEN AfterLastSlash(Tail(s)) ELSE s
\* a name without its trailing run of digits
RECURSIVE WithoutTrailingDigits(_)
WithoutTrailingDigits(s) ==
    IF s # <<>> /\ s[Len(s)] \in {"0", "1", "2", "3", "4", "5", "6", "7", "8", "9"}
    THEN WithoutTrailingDigits(SubSeq(s, 1, Len(s) - 1))
    ELSE s
\* a name without any of its digits
RECURSIVE WithoutAnyDigit(_)
WithoutAnyDigit(s) ==
    IF s = <<>> THEN <<>>
    ELSE IF Head(s) \in {"0", "1", "2", "3", "4", "5", "6", "7", "8", "9"}
    THEN WithoutAnyDigit(Tail(s))
    ELSE <<Head(s)>> \o WithoutAnyDigit(Tail(s))
\* a name that starts with "/dev/" (and holds it nowhere else) without it
WithoutDev(s) ==
    IF Len(s) >= 5 /\ SubSeq(s, 1, 5) = <<"/", "d", "e", "v", "/">>
    THEN SubSeq(s, 6, Len(s)) ELSE s
LookedUpAs(name) == IF name \in DOMAIN disk_io_history THEN name ELSE NoDevice

\* C12, as the specification states it: the I/O history looked up for a
\* partition is the one keyed by its name without the leading path prefix and
\* without the trailing run of digits (other digits are kept); if there is no
\* history under that name the result is "no data"
C12_Original ==
    selected_disk # NoDevice =>
        /\ IoDevice(disk_io_history, selected_disk)
             = LookedUpAs(WithoutTrailingDigits(AfterLastSlash(selected_disk)))
        /\ ChartIoDevice(Self)
             = LookedUpAs(WithoutTrailingDigits(AfterLastSlash(selected_disk)))
\* C12, amended: the history looked up is the one keyed by the name without
\* "/dev/" if there is one; otherwise the one keyed by that name with all of
\* its digits removed, if there is one; otherwise the result is "no data"
C12_Amended ==
    selected_disk # NoDevice =>
        LET name == WithoutDev(selected_disk)
            found == IF name \in DOMAIN disk_io_history THEN name
                     ELSE LookedUpAs(WithoutAnyDigit(name))
        IN /\ IoDevice(disk_io_history, selected_disk) = found
           /\ ChartIoDevice(Self) = found
\* nvme0n1p2 is looked up under nvmenp, although nvme0n1 and nvme0n1p have
\* histories
C12_Witness ==
    /\ selected_disk = DevNvme0n1p2
    /\ DOMAIN disk_io_history = {Nvme0n1, Nvme0n1p, Nvmenp}
    /\ ChartIoDevice(Self) = Nvmenp

\* The process lists: the user refreshes, filters and toggles the system
\* processes on the Performance and Processes tabs, processes start and exit
InitProcs == Init /\ partitions = BothMounted /\ diskstats = StatsFile(0, 0)
SwitchPerformanceProcesses == SwitchPageTo({PerformancePage, ProcessesPage})
NextProcs ==
    \/ RefreshAll
    \/ SwitchPerformanceProcesses
    \/ ToggleSystemProcesses
    \/ SearchChanged
    \/ ProcessesChange
SpecProcs == InitProcs /\ [][NextProcs]_vars

Pids(store) == {store[i].pid : i \in 1..Len(store)}
Owners(store) == {store[i].username : i \in 1..Len(store)}
OwnedByOthers == {i \in 1..Len(processes) : processes[i].username # CurrentUser}

\* C13: after every process refresh the "my processes" list holds only rows
\* owned by the current user, the "system processes" list only rows owned by
\* somebody else, no pid is in both lists, and the system list is empty when
\* the show-system toggle is off
C13_ListsPartitionedByOwner ==
    InEvents("refresh_processes") =>
      /\ Owners(my_process_list_store) \subseteq {CurrentUser}
      /\ CurrentUser \notin Owners(system_process_list_store)
      /\ Pids(my_process_list_store) \cap Pids(system_process_list_store) = {}
      /\ ~show_system_processes => system_process_list_store = <<>>
\* a refresh with the toggle off listed a process of the current user while
\* processes of other users were running
C13_Witness ==
    /\ InEvents("refresh_processes")
    /\ ~show_system_processes
    /\ my_process_list_store # <<>>
    /\ OwnedByOthers # {}

\* Ending a process: the user selects rows and asks to end them, answers the
\* dialogs, while processes start and exit
NextKill ==
    \/ RefreshAll
    \/ SwitchPerformanceProcesses
    \/ SelectMyProcess
    \/ SelectSystemProcess
    \/ EndProcessClicked
    \/ DialogResponse
    \/ DismissError
    \/ DelayedRefresh
    \/ ProcessesChange
SpecKill == InitProcs /\ [][NextKill]_vars

Outcomes == {"success", "not_found", "permission_denied", "other"}
OutcomesIn(evs) == {o \in Outcomes : \E i \in 1..Len(evs) : evs[i] = o}
Confirming == running # <<>> /\ Last(running).at = "confirm"
Terminate(pid) == [pid |-> pid, signal |-> "SIGTERM"]
\* a step that sends a signal answers Yes to the confirmation of a request, and
\* sends SIGTERM once to the pid of that request
SignalOnlyOnceConfirmed ==
    signals' # signals =>
      /\ Confirming
      /\ op' = "dialog_response"
      /\ events'[Len(events')] # "no"
      /\ signals' = Append(signals, Terminate(Last(running).pid))
\* the answer ends the request, or leaves it showing the error of a failure:
\* it is never back at the confirmation, from where a signal could be sent again
AnswerEndsRequest ==
    (Confirming /\ op' = "dialog_response") =>
      /\ Len(running') <= Len(running)
      /\ \A i \in 1..Len(running') : running'[i].at # "confirm"
      /\ IF events'[Len(events')] = "no"
         THEN signals' = signals /\ OutcomesIn(events') = {}
              /\ pending_refreshes' = pending_refreshes
         ELSE /\ signals' # signals
              /\ Cardinality(OutcomesIn(events')) = 1
              /\ IF "success" \in OutcomesIn(events')
                 THEN /\ Len(running') = Len(running) - 1
                      /\ pending_refreshes' = pending_refreshes + 1
                 ELSE /\ pending_refreshes' = pending_refreshes
                      /\ Len(running') = Len(running)
                      /\ Last(running').at = "error"
                      /\ {Last(running').outcome} = OutcomesIn(events')
NoForcedKill == \A i \in 1..Len(signals) : signals[i].signal = "SIGTERM"

\* C14: a request to end a process sends SIGTERM at most once and only after the
\* user answered Yes; a confirmed request ends in exactly one of success,
\* not-found, permission-denied and other-failure; after a failure the signal is
\* not sent again, and no other signal than SIGTERM is ever sent
C14_TerminateOnceAfterConfirm ==
    /\ []NoForcedKill
    /\ [][SignalOnlyOnceConfirmed /\ AnswerEndsRequest]_vars
\* the error dialog of a request refused for lack of permission is open, and
\* one SIGTERM was sent to its pid
C14_Witness ==
    /\ running # <<>>
    /\ Last(running).at = "error"
    /\ Last(running).outcome = "permission_denied"
    /\ signals = <<Terminate(Last(running).pid)>>

\* The ticks among the other handlers: the timer fires, the user refreshes,
\* changes the interval, asks to end a process of another user and answers the
\* dialogs, while metrics calls fail and recover
NextTicks ==
    \/ FaultChanges
    \/ Tick
    \/ RefreshAll
    \/ IntervalChanged
    \/ SwitchPerformanceProcesses
    \/ TimePasses
    \/ SelectSystemProcess
    \/ EndProcessClicked
    \/ DialogResponse
    \/ DismissError
SpecTicks == InitProcs /\ [][NextTicks]_vars

TickOps == {"tick", "refresh_all"}
\* no handler suspended in a nested main loop is a tick
NoTickInFlight ==
    \A i \in 1..Len(running) : running[i].handler = "end_selected_process"
\* a tick ran the step of the current tab, then update_performance_data up to
\* its end, and returned: nothing of it is left to run, and its timer is armed
TickRanToCompletion ==
    op' \in TickOps =>
      /\ events' # <<>>
      /\ events'[Len(events')] \in {"cpu_chart_queue_draw", "error"}
      /\ current_page = ProcessesPage =>
           \E i \in 1..Len(events') : events'[i] = "refresh_processes"
      /\ running' = running
      /\ update_timer_id' = update_timer_id
      /\ update_timer_id' \in DOMAIN timers'

\* C15: ticks never overlap: whenever a handler runs, no tick is suspended
\* half-way, so a tick that starts finds none in flight; every tick runs the
\* step of its tab and update_performance_data to the end, whatever the
\* interleaving of timer firings, refreshes, interval changes and dialogs
C15_TicksNeverOverlap ==
    /\ []NoTickInFlight
    /\ [][TickRanToCompletion]_vars
\* the timer fired and the tick completed while a dialog was open
C15_Witness ==
    /\ op = "tick"
    /\ running # <<>>
    /\ events[Len(events)] = "cpu_chart_queue_draw"

Errors(evs) == {i \in 1..Len(evs) : evs[i] = "error"}
\* the timer that ran the tick is armed for a later time
TimerStaysArmed ==
    /\ update_timer_id' \in DOMAIN timers'
    /\ timers'[update_timer_id'].due > now

\* C16: a sampling failure during a tick is absorbed: the tick still runs its
\* other sampling steps, the step that failed leaves its histories and its
\* previous-snapshot map as they were, the timer stays armed, and the failed
\* step is not run again within the tick
C16_FailureAbsorbed ==
    [][(op' = "tick" /\ fault # "none") =>
          /\ TimerStaysArmed
          /\ Cardinality(Errors(events')) <= 1
          /\ fault = "diskstats" =>
               /\ disk_io_history' = disk_io_history
               /\ last_disk_io' = last_disk_io
               /\ Advanced(cpu_history, cpu_history')
               /\ Advanced(memory_history, memory_history')
          /\ fault \in {"cpu_percent", "virtual_memory"} =>
               /\ cpu_history' = cpu_history
               /\ memory_history' = memory_history
               /\ current_page = ProcessesPage =>
                    \E i \in 1..Len(events') : events'[i] = "refresh_processes"
               /\ current_page = DisksPage =>
                    \E i \in 1..Len(events') : events'[i] = "refresh_disk_data"]_vars

\* in evs every occurrence of the event did is followed by the event then
FollowedBy(evs, did, then) ==
    \A i \in 1..Len(evs) :
      evs[i] = did => \E j \in (i + 1)..Len(evs) : evs[j] = then
\* the history charted for the selected disk received a sample in this step
SelectedIoAppended ==
    /\ selected_disk' # NoDevice
    /\ IoDevice(disk_io_history', selected_disk') # NoDevice
    /\ IoDevice(disk_io_history', selected_disk') \in DOMAIN io_count'
    /\ \/ IoDevice(disk_io_history', selected_disk') \notin DOMAIN io_count
       \/ io_count'[IoDevice(disk_io_history', selected_disk')] #
            io_count[IoDevice(disk_io_history', selected_disk')]

\* C17: whenever a tick appends a sample to a history, a redraw of the chart of
\* that history is requested later in the same tick: a CPU or memory append is
\* followed by cpu_chart_area.queue_draw(), an append to the I/O history of
\* the selected disk by disk_io_chart.queue_draw()
C17_RedrawAfterAppend ==
    [][op' \in TickOps =>
          /\ FollowedBy(events', "cpu_append", "cpu_chart_queue_draw")
          /\ FollowedBy(events', "memory_append", "cpu_chart_queue_draw")
          /\ SelectedIoAppended =>
               FollowedBy(events', "io_pass", "disk_io_chart_queue_draw")]_vars

\* The time-series charts: a file system is mounted or none is, sda reads and
\* writes in bursts, the timer runs on the Performance and Disks tabs, and GTK
\* has the two charts drawn at any time
InitCharts == InitWith({<<>>, <<Partition(DevSda1, "/", "ext4", Usage(4, 1))>>},
                       {StatsFile(0, 0)})
NextCharts ==
    \/ Tick
    \/ TimePasses
    \/ SwitchPerformanceDisks
    \/ Burst
    \/ DrawCpuChart
    \/ DrawDiskIoChart
SpecCharts == InitCharts /\ [][NextCharts]_vars

\* x = i * width / (N - 1) and y = height - (v / scale) * height * 0.9 for the
\* sample of index i (from 0) and value v of the N-slot history
PlottedAt(point, i, v, slots, scale, width, height) ==
    /\ point.x.n * (slots - 1) = i * width * point.x.d
    /\ point.y.n * (scale.n * v.d * 10) =
         (height * scale.n * v.d * 10 - v.n * scale.d * height * 9) * point.y.d
PlottedFrom(line, history, scale, width, height) ==
    /\ Len(line) = Len(history)
    /\ \A k \in 1..Len(line) :
         PlottedAt(line[k], k - 1, history[k], Len(history), scale, width, height)
    /\ FracEq(line[1].x, Zero)
    /\ FracEq(line[Len(line)].x, Whole(width))
\* the 2-point history (0, 100) at scale 100
TwoPoints(width, height) ==
    Polyline(<<Whole(0), Whole(100)>>, PointSpacing(width, 2), Whole(100), height)

\* C18: in a time-series chart the sample of index i and value v of an N-slot
\* history is plotted at x = i*width/(N-1), y = height - (v/scaleMax)*height*0.9,
\* the oldest sample at x = 0 and the newest at x = width; the 2-point history
\* (0, 100) at scaleMax 100 has its endpoints at y = height and y = 0.1*height
C18_PointsOfTheCharts ==
    /\ [][(op' = "on_cpu_chart_draw" /\ painted'.shows = "chart") =>
            /\ Len(painted'.series) = 2
            /\ PlottedFrom(painted'.series[1], Percents(cpu_history), Whole(100),
                           painted'.width, painted'.height)
            /\ PlottedFrom(painted'.series[2], Percents(memory_history), Whole(100),
                           painted'.width, painted'.height)]_vars
    /\ [][(op' = "on_disk_io_chart_draw" /\ painted'.shows = "chart") =>
            /\ Len(painted'.series) = 2
            /\ PlottedFrom(painted'.series[1],
                           disk_io_history[ChartIoDevice(Self)].read,
                           painted'.scale, painted'.width, painted'.height)
            /\ PlottedFrom(painted'.series[2],
                           disk_io_history[ChartIoDevice(Self)].write,
                           painted'.scale, painted'.width, painted'.height)]_vars
    /\ [](\A width \in ChartWidths \ {0}, height \in ChartHeights \ {0} :
            /\ Len(TwoPoints(width, height)) = 2
            /\ TwoPoints(width, height)[1] =
                 [x |-> Zero, y |-> Whole(height)]
            /\ TwoPoints(width, height)[2] =
                 [x |-> Whole(width), y |-> Frac(height, 10)])
\* the CPU chart was drawn with samples above zero in its history
C18_Witness ==
    /\ op = "on_cpu_chart_draw"
    /\ painted.shows = "chart"
    /\ Len(painted.series[1]) = cpu_history_points
    /\ \E k \in 1..Len(painted.series[1]) :
         ~FracEq(painted.series[1][k].y, Whole(painted.height))

\* The pie chart: one file system is mounted, empty, partly used or full; the
\* timer runs, the user refreshes on the Performance and Disks tabs, and GTK
\* has the pie drawn at any time
PieTables ==
    {<<>>} \cup {<<Partition(DevSda1, "/", "ext4", Usage(4, used))>> : used \in 0..4}
InitPie == InitWith(PieTables, {StatsFile(0, 0)})
NextPie ==
    \/ Tick
    \/ RefreshAll
    \/ TimePasses
    \/ SwitchPerformanceDisks
    \/ DrawDiskPieChart
SpecPie == InitPie /\ [][NextPie]_vars

Sweep(arc) == FracSub(arc.to, arc.from)
\* the used fraction of the selected disk
UsedFraction == Frac(disk_stats[selected_disk].percent, 100)

\* C19: for every used fraction u in [0,1] the used wedge of the pie starts at
\* -90 degrees and sweeps clockwise by u*360 degrees, the free wedge starts
\* where the used wedge ends and ends at 270 degrees, so the sweeps add up to
\* 360 degrees; u = 0.25 gives a used sweep of exactly 90 degrees
C19_PieWedges ==
    /\ [][(op' = "on_disk_pie_chart_draw" /\ painted'.shows = "pie") =>
            /\ FracLeq(Zero, UsedFraction) /\ FracLeq(UsedFraction, Whole(1))
            /\ Len(painted'.arcs) = 2
            /\ FracEq(painted'.arcs[1].from, [n |-> 0 - 90, d |-> 1])
            /\ FracEq(Sweep(painted'.arcs[1]), FracMul(UsedFraction, Whole(360)))
            /\ FracLeq(Zero, Sweep(painted'.arcs[1]))
            /\ painted'.arcs[2].from = painted'.arcs[1].to
            /\ FracEq(painted'.arcs[2].to, Whole(270))
            /\ FracLeq(Zero, Sweep(painted'.arcs[2]))
            /\ FracEq(FracAdd(Sweep(painted'.arcs[1]), Sweep(painted'.arcs[2])),
                      Whole(360))]_vars
    /\ [](Sweep(PieArcs(Frac(25, 100))[1]) = Whole(90))
\* the pie of a disk that is a quarter full was drawn
C19_Witness ==
    /\ op = "on_disk_pie_chart_draw"
    /\ painted.shows = "pie"
    /\ disk_stats[selected_disk].percent = 25
    /\ Sweep(painted.arcs[1]) = Whole(90)
    /\ Sweep(painted.arcs[2]) = Whole(270)

\* the rates of both histories of the device the I/O chart is drawn from
ChartedRates ==
    LET io_data == disk_io_history[ChartIoDevice(Self)]
    IN {io_data.read[k] : k \in 1..Len(io_data.read)}
         \cup {io_data.write[k] : k \in 1..Len(io_data.write)}
PlottedPoints(p) ==
    UNION {{p.series[l][k] : k \in 1..Len(p.series[l])} : l \in 1..Len(p.series)}

\* C20: the scale maximum of the I/O chart is the largest value of the read
\* and write histories of the charted device, but never less than 1; so the
\* scale is never zero and every plotted point of both series has its y within
\* [0.1*height, height]
C20_IoScale ==
    [][(op' = "on_disk_io_chart_draw" /\ painted'.shows = "chart") =>
          /\ \A v \in ChartedRates : FracLeq(v, painted'.scale)
          /\ FracLeq(Whole(1), painted'.scale)
          /\ \/ painted'.scale = Whole(1)
             \/ \E v \in ChartedRates : FracEq(v, painted'.scale)
          /\ painted'.scale.n # 0
          /\ PlottedPoints(painted') # {}
          /\ \A point \in PlottedPoints(painted') :
               /\ FracLeq(Frac(painted'.height, 10), point.y)
               /\ FracLeq(point.y, Whole(painted'.height))]_vars
\* the I/O chart was drawn to a scale above 1, a sample at the scale maximum
\* plotted at 0.1*height
C20_Witness ==
    /\ op = "on_disk_io_chart_draw"
    /\ painted.shows = "chart"
    /\ ~FracLeq(painted.scale, Whole(1))
    /\ \E point \in PlottedPoints(painted) :
         FracEq(point.y, Frac(painted.height, 10))

\* The draw handlers on areas of any size: a file system is mounted or none
\* is, the timer runs on the Performance and Disks tabs, and GTK has the three
\* areas drawn while they are allocated no width or no height, or both
InitSizes == InitCharts
DrawCpuChartAnySize == DrawCpuChartAt(AllocatedWidths, AllocatedHeights)
DrawDiskPieChartAnySize == DrawDiskPieChartAt(AllocatedWidths, AllocatedHeights)
DrawDiskIoChartAnySize == DrawDiskIoChartAt(AllocatedWidths, AllocatedHeights)
NextSizes ==
    \/ Tick
    \/ TimePasses
    \/ SwitchPerformanceDisks
    \/ DrawCpuChartAnySize
    \/ DrawDiskPieChartAnySize
    \/ DrawDiskIoChartAnySize
SpecSizes == InitSizes /\ [][NextSizes]_vars

DrawOps == {"on_cpu_chart_draw", "on_disk_pie_chart_draw", "on_disk_io_chart_draw"}

\* C21: each of the three draw handlers emits no drawing primitive and raises
\* no error when the width or the height of its area is zero or negative,
\* whatever the histories and the selected disk
C21_NothingDrawnWithoutArea ==
    [][(op' \in DrawOps /\ (painted'.width <= 0 \/ painted'.height <= 0)) =>
          /\ painted'.shows = "nothing"
          /\ painted'.series = <<>>
          /\ painted'.arcs = <<>>
          /\ events' = <<>>]_vars
\* the pie handler ran on an area without height while a disk was selected
C21_Witness ==
    /\ op = "on_disk_pie_chart_draw"
    /\ painted.width > 0
    /\ painted.height <= 0
    /\ selected_disk # NoDevice
    /\ painted.shows = "nothing"

\* the process passes the name filter of the search entry
PassesFilter(p) == search_text = <<>> \/ Contains(Lower(p.name), Lower(search_text))
\* the process belongs to a list that is shown
Listed(p) == p.username = CurrentUser \/ show_system_processes

\* C22: during a process refresh a process that cannot be read is skipped and
\* every other enumerated process that passes the name filter still gets its
\* row in the same refresh: one bad process never truncates the listing
C22_BadProcessNeverTruncates ==
    InEvents("refresh_processes") =>
      \A i \in 1..Len(processes) :
        (processes[i].name_known /\ PassesFilter(processes[i]) /\ Listed(processes[i]))
          => processes[i].pid \in
               Pids(my_process_list_store) \cup Pids(system_process_list_store)

\* C23: the chart renderer only reads: an invocation of any draw handler leaves
\* the CPU and memory histories, every I/O history, the previous-counter
\* snapshot, the disk snapshot and the selected disk unchanged
C23_DrawHandlersOnlyRead ==
    [][op' \in DrawOps =>
          /\ cpu_history' = cpu_history
          /\ memory_history' = memory_history
          /\ disk_io_history' = disk_io_history
          /\ last_disk_io' = last_disk_io
          /\ disk_stats' = disk_stats
          /\ selected_disk' = selected_disk]_vars
\* the I/O chart of the selected disk was drawn from a history with samples
C23_Witness ==
    /\ op = "on_disk_io_chart_draw"
    /\ painted.shows = "chart"
    /\ selected_disk # NoDevice
    /\ \E d \in DOMAIN io_count : io_count[d] > 0
    /\ cpu_count > 0

\* Counter resets: sda has read and written before start-up; its counters grow
\* and are reset while the user refreshes on the Performance and Disks tabs
InitReset == Init /\ partitions = BothMounted /\ diskstats = StatsFile(1, 1)
NextReset ==
    \/ RefreshAll
    \/ SwitchPerformanceDisks
    \/ DiskActivity
    \/ DiskReset
SpecReset == InitReset /\ [][NextReset]_vars

\* the devices of /proc/diskstats the pass reads (loop devices are skipped)
DevicesRead == {d \in DOMAIN diskstats : ~StartsWith(d, LoopPrefix)}
RolledBack(d) ==
    /\ d \in DevicesRead
    /\ d \in DOMAIN last_disk_io
    /\ (ReadDelta(d) < 0 \/ WriteDelta(d) < 0)

\* C24: after every I/O sampling pass that read the counters, the previous
\* snapshot is exactly the counters just read: also for a device whose interval
\* was discarded because a counter went back, and without the devices no longer
\* listed; so a reset suppresses one interval only, the next one being measured
\* against the counters read after the reset
C24_SnapshotIsCountersJustRead ==
    [][InEvents("io_pass")' =>
          /\ DOMAIN last_disk_io' = DevicesRead
          /\ \A d \in DevicesRead :
               /\ last_disk_io'[d].read_bytes = diskstats[d].sectors_read * 512
               /\ last_disk_io'[d].write_bytes = diskstats[d].sectors_written * 512
               /\ last_disk_io'[d].reads = diskstats[d].reads_completed
               /\ last_disk_io'[d].writes = diskstats[d].writes_completed
               /\ RolledBack(d) =>
                    /\ d \in DOMAIN disk_io_history =>
                         disk_io_history'[d] = disk_io_history[d]
                    /\ d \notin DOMAIN disk_io_history =>
                         d \notin DOMAIN disk_io_history'
               /\ (d \in DOMAIN last_disk_io /\ ~RolledBack(d)) =>
                    /\ d \in DOMAIN disk_io_history'
                    /\ FracEq(Last(disk_io_history'[d].read),
                              [n |-> ReadDelta(d), d |-> update_interval * 1048576])
                    /\ FracEq(Last(disk_io_history'[d].write),
                              [n |-> WriteDelta(d), d |-> update_interval * 1048576])]_vars
\* a counter of sda was reset, one pass discarded the interval, sda read again
\* and the pass that ran last measured the read from the counters of the reset
C24_Witness ==
    /\ InEvents("io_pass")
    /\ changes > 0
    /\ Sda \in DOMAIN disk_io_history
    /\ Sda \in DOMAIN last_disk_io
    /\ last_disk_io[Sda].read_bytes = 512
    /\ Last(disk_io_history[Sda].read).n > 0

\* C25: after any sequence of ticks and manual refreshes, also when a metrics
\* call failed part-way through a pass, the CPU history and the memory history
\* have received the same number of samples, so that the entries at equal
\* indexes of the two histories come from the same sampling pass
C25_HistoriesInStep ==
    /\ cpu_count = memory_count
    /\ Len(cpu_history) = Len(memory_history)

\* the pid of the row the user selected in the step before
JustSelected ==
    IF InEvents("system_process_tree")
    THEN system_process_list_store[system_selection].pid
    ELSE my_process_list_store[my_selection].pid

\* C26: the pid for which End Process asks to confirm the termination is the
\* pid of the row the user selected most recently across the two process
\* lists, also when a row is selected in each list (stated for a click on End
\* Process that directly follows the selection of a row)
C26_TargetsMostRecentSelection ==
    [][(op = "select_process" /\ op' = "end_selected_process"
          /\ Len(running') > Len(running)) =>
          running'[Len(running')].pid = JustSelected]_vars

====
